---- MODULE Spec2Model ----
(***************************************************************************)
(* Causal Memory Core (src/src/utils/causal_memory_core.py).               *)
(*                                                                         *)
(* Spec    : add_event calls running on several request threads against   *)
(*           one store (one DuckDB connection); every conn.execute is one  *)
(*           atomic step, the oracle and the clock move between steps.     *)
(* SpecCtx : get_causal_context walking a store of arbitrary content       *)
(*           (cycles, self references, dangling cause ids).                *)
(***************************************************************************)
EXTENDS Integers, Sequences, FiniteSets, TLC

VARIABLES
    conn,        \* self.conn is not None
    embedder,    \* self.embedder is not None
    llm,         \* self.llm is not None
    seqNative,   \* CREATE SEQUENCE causal_events_seq succeeded at start-up
    events,      \* table causal_events: a set of rows
    seq,         \* next value of the native sequence causal_events_seq
    seqTable,    \* rows of the fallback table _causal_events_seq
    clock,       \* datetime.now()
    th,          \* per request thread: the locals of its add_event call
    calls,       \* number of add_event calls started
    assigned,    \* history: the ids handed out by _insert_event, in order
    ctx,         \* the locals of the get_causal_context call
    cache,       \* BoundedSessionCache._cache: items, least recently used first
    timestamps,  \* BoundedSessionCache._timestamps
    now,         \* time.time()
    cth,         \* per request thread: the locals of its cache call
    cops,        \* number of cache calls started
    hist,        \* history of the cache calls
    ca           \* the locals of the ContextAnalyzer call

coreVars == <<conn, embedder, llm, seqNative, events, seq, seqTable, clock, th,
              calls, assigned, ctx>>

cacheVars == <<cache, timestamps, now, cth, cops, hist>>

analyzerVars == <<ca>>

vars == <<coreVars, cacheVars, analyzerVars>>

-----------------------------------------------------------------------------
(* Bounds *)

MaxCalls == 3
MaxClock == 2

Threads == {1, 2}

(* Program parameters, scaled to the bounded clock and store. *)
time_decay_hours == 1
max_potential_causes == 2
CandidateLimit == 3

(* similarity_threshold = 0.5 = ThresholdNum / ThresholdDen *)
ThresholdNum == 1
ThresholdDen == 2

-----------------------------------------------------------------------------
(* Values *)

NULL == "NULL"
NoId == 0

Texts == {"A", "B", "C"}
Sessions == {"s1"}

(* embedder.encode: a fixed function of the text *)
Encode(text) ==
    CASE text = "A" -> <<1, 0>>
      [] text = "B" -> <<1, 1>>
      [] text = "C" -> <<1, 2>>
      [] OTHER -> <<0, 0>>

-----------------------------------------------------------------------------
(* BoundedSessionCache (src/src/utils/performance_utils.py): state *)

maxsize == 2
ttl == 2
MaxElapsed == 2
MaxOps == 4
MaxRaceOps == 3

CacheKeys == {"k1", "k2", "k3"}
CacheValues == {"v1", "v2"}

(* a dict with no key *)
EmptyDict == [k \in {} |-> 0]

IdleCache ==
    [pc |-> "idle", op |-> NULL, key |-> NULL, value |-> NULL, result |-> NULL,
     \* history of this call: its serial number, the clock when it was
     \* entered, whether `key in self._cache` held, the clock read by the
     \* expiry test (0: not read), and the completed set it should see
     id |-> 0, started_at |-> 0, present |-> FALSE, checked_at |-> 0,
     expect |-> [id |-> 0]]

(* history: per key the last completed set, the thread whose set wrote   *)
(* the value last, every value ever written, and the serial number of    *)
(* the call that used the key last (set, or get with a hit)              *)
NoHistory ==
    [latest |-> EmptyDict, writer |-> EmptyDict,
     stored |-> [k \in CacheKeys |-> {}], lastUse |-> EmptyDict]

(* after BoundedSessionCache(maxsize, ttl): time.time() is far beyond ttl *)
CacheInit ==
    /\ cache = <<>>
    /\ timestamps = EmptyDict
    /\ now = ttl
    /\ cth = [t \in Threads |-> IdleCache]
    /\ cops = 0
    /\ hist = NoHistory

(* ContextAnalyzer keeps no state between calls; the locals of a call *)
IdleAnalyzer ==
    [pc |-> "idle", op |-> NULL, current_directive |-> NULL,
     conversation_text |-> NULL, historical_conversations |-> <<>>,
     utcnow |-> 0, result |-> NULL]

-----------------------------------------------------------------------------
(* Cosine similarity, exact.  A similarity is the pair <<n, d>>, d > 0,     *)
(* standing for sign(dot) * dot^2 / (|a|^2 * |b|^2), the signed square of  *)
(* dot / (|a| * |b|); squaring keeps the order of the values.              *)

RECURSIVE Dot(_, _)
Dot(a, b) == IF a = <<>> THEN 0 ELSE Head(a) * Head(b) + Dot(Tail(a), Tail(b))

Norm2(a) == Dot(a, a)

Denom2(a, b) == Norm2(a) * Norm2(b)

Similarity(a, b) ==
    LET d == Dot(a, b)
    IN  <<IF d < 0 THEN 0 - d * d ELSE d * d, Denom2(a, b)>>

SimLess(s, t) == s[1] * t[2] < t[1] * s[2]
SimEq(s, t) == s[1] * t[2] = t[1] * s[2]

(* similarity >= self.similarity_threshold *)
AtLeastThreshold(s) ==
    SimLess(<<ThresholdNum * ThresholdNum, ThresholdDen * ThresholdDen>>, s)
    \/ SimEq(<<ThresholdNum * ThresholdNum, ThresholdDen * ThresholdDen>>, s)

-----------------------------------------------------------------------------
(* Rows and events *)

Min(a, b) == IF a < b THEN a ELSE b

(* the CausalEvent built from a row: the first six columns *)
CausalEvent(r) ==
    [event_id |-> r.event_id, timestamp |-> r.timestamp,
     effect_text |-> r.effect_text, embedding |-> r.embedding,
     cause_id |-> r.cause_id, relationship_text |-> r.relationship_text]

(* ORDER BY timestamp DESC LIMIT limit over the rows S: every way the      *)
(* engine may order rows of equal timestamp and cut a tie at the limit     *)
RECURSIVE NewestFirst(_, _)
NewestFirst(S, limit) ==
    IF S = {} \/ limit = 0 THEN {<<>>}
    ELSE LET newest == {e \in S : \A d \in S : d.timestamp <= e.timestamp}
         IN  UNION {{<<e>> \o rest : rest \in NewestFirst(S \ {e}, limit - 1)} :
                    e \in newest}

(* Python truthiness of an Optional[str] *)
Truthy(s) == s # NULL /\ s # ""

-----------------------------------------------------------------------------
(* _find_potential_causes: filter, score, rank *)

(* the row survives the filters of the scoring loop *)
IsCandidate(r, effect_embedding, effect_text) ==
    /\ r.effect_text # effect_text
    /\ Len(r.embedding) = Len(effect_embedding)
    /\ Denom2(effect_embedding, r.embedding) # 0
    /\ AtLeastThreshold(Similarity(effect_embedding, r.embedding))

RECURSIVE ScoreRows(_, _, _)
ScoreRows(rows, effect_embedding, effect_text) ==
    IF rows = <<>> THEN <<>>
    ELSE LET r == Head(rows)
             rest == ScoreRows(Tail(rows), effect_embedding, effect_text)
         IN  IF IsCandidate(r, effect_embedding, effect_text)
             THEN <<[similarity |-> Similarity(effect_embedding, r.embedding),
                     event |-> CausalEvent(r)]>> \o rest
             ELSE rest

(* key (similarity, timestamp) of x is below that of y *)
KeyLess(x, y) ==
    \/ SimLess(x.similarity, y.similarity)
    \/ /\ SimEq(x.similarity, y.similarity)
       /\ x.event.timestamp < y.event.timestamp

(* list.sort(key=..., reverse=True): descending and stable *)
RECURSIVE InsertDesc(_, _)
InsertDesc(sorted, x) ==
    IF sorted = <<>> THEN <<x>>
    ELSE IF KeyLess(Head(sorted), x) THEN <<x>> \o sorted
    ELSE <<Head(sorted)>> \o InsertDesc(Tail(sorted), x)

RECURSIVE SortDesc(_)
SortDesc(cands) ==
    IF cands = <<>> THEN <<>>
    ELSE InsertDesc(SortDesc(SubSeq(cands, 1, Len(cands) - 1)), cands[Len(cands)])

(* mutant: every candidate above the threshold is kept *)
TopCauses_All(cands) == cands

(* candidates[:self.max_potential_causes] *)
TopCauses(cands) == SubSeq(cands, 1, Min(max_potential_causes, Len(cands)))

RankCandidates(rows, effect_embedding, effect_text) ==
    TopCauses(SortDesc(ScoreRows(rows, effect_embedding, effect_text)))

-----------------------------------------------------------------------------
(* _judge_causality: what it makes of the model's reply *)

UpperCase == "ABCDEFGHIJKLMNOPQRSTUVWXYZ"
LowerCase == "abcdefghijklmnopqrstuvwxyz"

LowerChar(c) ==
    IF \E k \in 1..Len(UpperCase) : SubSeq(UpperCase, k, k) = c
    THEN LET k == CHOOSE k \in 1..Len(UpperCase) : SubSeq(UpperCase, k, k) = c
         IN  SubSeq(LowerCase, k, k)
    ELSE c

RECURSIVE Lower(_)
Lower(s) ==
    IF Len(s) = 0 THEN ""
    ELSE LowerChar(SubSeq(s, 1, 1)) \o Lower(SubSeq(s, 2, Len(s)))

RECURSIVE Strip(_)
Strip(s) ==
    IF Len(s) = 0 THEN s
    ELSE IF SubSeq(s, 1, 1) = " " THEN Strip(SubSeq(s, 2, Len(s)))
    ELSE IF SubSeq(s, Len(s), Len(s)) = " " THEN Strip(SubSeq(s, 1, Len(s) - 1))
    ELSE s

StartsWith(s, prefix) ==
    Len(s) >= Len(prefix) /\ SubSeq(s, 1, Len(prefix)) = prefix

(* the replies the chat model may give; RAISE: the API call raises *)
RAISE == "<raise>"
LLMReplies == {"No.", " NO", "", "it led to it"}

(* mutant: the error of a failed API call is taken for a relationship *)
JudgeReply_ErrorAsText(reply) ==
    IF reply = RAISE THEN "error"
    ELSE LET result == Strip(reply)
         IN  IF Lower(result) = "no." \/ StartsWith(Lower(result), "no")
             THEN NULL
             ELSE result

JudgeReply(reply) ==
    IF reply = RAISE THEN NULL
    ELSE LET result == Strip(reply)
         IN  IF Lower(result) = "no." \/ StartsWith(Lower(result), "no")
             THEN NULL
             ELSE result

-----------------------------------------------------------------------------
(* add_event, one request thread t *)

UNAVAILABLE == "<no llm>"

IdleThread ==
    [pc |-> "idle", effect_text |-> NULL, session_id |-> NULL,
     effect_embedding |-> <<>>, potential_causes |-> <<>>, i |-> 0,
     cause_id |-> NoId, relationship_text |-> NULL, next_id |-> NoId,
     result |-> NULL,
     \* history of this call: the oracle consultations, the rows it wrote,
     \* and what made it return False
     consulted |-> <<>>, appended |-> {}, failure |-> NULL]

(* the locals of a call that has just been entered *)
Entered(effect_text, session_id) ==
    [IdleThread EXCEPT !.effect_text = effect_text, !.session_id = session_id]

(* _is_available *)
is_available == conn /\ embedder

(* `return value`: the frame is gone; what stays is the outcome of the call *)
Return(call, value, why) ==
    [IdleThread EXCEPT !.pc = "done", !.result = value, !.failure = why,
                       !.effect_text = call.effect_text,
                       !.session_id = call.session_id,
                       !.cause_id = call.cause_id,
                       !.relationship_text = call.relationship_text,
                       !.appended = call.appended]

(* mutant: an unavailable core skips linking and goes on to the insert *)
NotAvailable_StoresRoot(call) == [call EXCEPT !.pc = "nextval"]

(* if not self._is_available(): return False *)
NotAvailable(call) ==
    Return(call, FALSE, IF conn THEN "no embedder" ELSE "no store")

(* mutant: the except clause reports success *)
Except_ReturnsTrue(call, why) == Return(call, TRUE, why)

(* the except clause of add_event: log and return False *)
Except(call, why) == Return(call, FALSE, why)

(* entry: the availability check and embedder.encode *)
add_event(t, effect_text, session_id) ==
    /\ th[t].pc = "idle"
    /\ calls < MaxCalls
    /\ calls' = calls + 1
    /\ IF ~is_available
       THEN th' = [th EXCEPT ![t] = NotAvailable(Entered(effect_text, session_id))]
       ELSE \E ok \in BOOLEAN :
              IF ok /\ embedder
              THEN th' = [th EXCEPT ![t] =
                            [Entered(effect_text, session_id) EXCEPT
                                !.pc = "find",
                                !.effect_embedding = Encode(effect_text)]]
              ELSE th' = [th EXCEPT ![t] =
                            Except(Entered(effect_text, session_id), "embedding")]
    /\ UNCHANGED <<cacheVars, analyzerVars>>
    /\ UNCHANGED <<conn, embedder, llm, seqNative, events, seq, seqTable,
                   clock, assigned, ctx>>

(* rows of the time window: timestamp > now - time_decay_hours *)
RecentRows == {e \in events : e.timestamp > clock - time_decay_hours}

(* _find_potential_causes: the SELECT and the ranking *)
find_potential_causes(t) ==
    /\ th[t].pc = "find"
    /\ \E ok \in BOOLEAN :
         IF ~ok
         THEN th' = [th EXCEPT ![t] = Except(th[t], "store")]
         ELSE \E rows \in (IF conn THEN NewestFirst(RecentRows, CandidateLimit)
                                   ELSE {<<>>}) :
                LET ranked == RankCandidates(rows, th[t].effect_embedding,
                                             th[t].effect_text)
                    causes == [k \in 1..Len(ranked) |-> ranked[k].event]
                IN  th' = [th EXCEPT ![t].potential_causes = causes,
                                     ![t].i = 1,
                                     ![t].pc = IF causes = <<>> THEN "nextval"
                                               ELSE "judge"]
    /\ UNCHANGED <<cacheVars, analyzerVars>>
    /\ UNCHANGED <<conn, embedder, llm, seqNative, events, seq, seqTable,
                   clock, calls, assigned, ctx>>

(* mutant: no break after the first confirmation *)
LoopTurn_NoBreak(call, reply, relationship) ==
    LET cause == call.potential_causes[call.i]
        last == call.i = Len(call.potential_causes)
        seen == Append(call.consulted,
                       [event_id |-> cause.event_id, reply |-> reply,
                        relationship |-> relationship])
    IN  IF Truthy(relationship)
        THEN [call EXCEPT !.cause_id = cause.event_id,
                          !.relationship_text = relationship,
                          !.i = @ + 1,
                          !.consulted = seen,
                          !.pc = IF last THEN "nextval" ELSE "judge"]
        ELSE [call EXCEPT !.i = @ + 1,
                          !.consulted = seen,
                          !.pc = IF last THEN "nextval" ELSE "judge"]

(* mutant: the position in the list is recorded instead of the event id *)
LoopTurn_IndexAsId(call, reply, relationship) ==
    LET cause == call.potential_causes[call.i]
        last == call.i = Len(call.potential_causes)
        seen == Append(call.consulted,
                       [event_id |-> cause.event_id, reply |-> reply,
                        relationship |-> relationship])
    IN  IF Truthy(relationship)
        THEN [call EXCEPT !.cause_id = call.i,
                          !.relationship_text = relationship,
                          !.consulted = seen,
                          !.pc = "nextval"]
        ELSE [call EXCEPT !.i = @ + 1,
                          !.consulted = seen,
                          !.pc = IF last THEN "nextval" ELSE "judge"]

(* mutant: cause_id is assigned before the verdict is looked at *)
LoopTurn_LinkBeforeVerdict(call, reply, relationship) ==
    LET cause == call.potential_causes[call.i]
        last == call.i = Len(call.potential_causes)
        seen == Append(call.consulted,
                       [event_id |-> cause.event_id, reply |-> reply,
                        relationship |-> relationship])
    IN  IF Truthy(relationship)
        THEN [call EXCEPT !.cause_id = cause.event_id,
                          !.relationship_text = relationship,
                          !.consulted = seen,
                          !.pc = "nextval"]
        ELSE [call EXCEPT !.cause_id = cause.event_id,
                          !.i = @ + 1,
                          !.consulted = seen,
                          !.pc = IF last THEN "nextval" ELSE "judge"]

(* one turn of `for cause in potential_causes`: the verdict of             *)
(* _judge_causality on the candidate at position i, then link and break,   *)
(* or go on with the next candidate                                        *)
LoopTurn(call, reply, relationship) ==
    LET cause == call.potential_causes[call.i]
        last == call.i = Len(call.potential_causes)
        seen == Append(call.consulted,
                       [event_id |-> cause.event_id, reply |-> reply,
                        relationship |-> relationship])
    IN  IF Truthy(relationship)
        THEN [call EXCEPT !.cause_id = cause.event_id,
                          !.relationship_text = relationship,
                          !.consulted = seen,
                          !.pc = "nextval"]
        ELSE [call EXCEPT !.i = @ + 1,
                          !.consulted = seen,
                          !.pc = IF last THEN "nextval" ELSE "judge"]

judge_causality(t) ==
    /\ th[t].pc = "judge"
    /\ IF ~llm
       THEN th' = [th EXCEPT ![t] = LoopTurn(th[t], UNAVAILABLE, NULL)]
       ELSE \E reply \in LLMReplies \cup {RAISE} :
              th' = [th EXCEPT ![t] = LoopTurn(th[t], reply, JudgeReply(reply))]
    /\ UNCHANGED <<cacheVars, analyzerVars>>
    /\ UNCHANGED <<conn, embedder, llm, seqNative, events, seq, seqTable,
                   clock, calls, assigned, ctx>>

(* _insert_event: SELECT nextval('causal_events_seq') *)
insert_event_nextval(t) ==
    /\ th[t].pc = "nextval"
    /\ IF ~conn
       THEN /\ th' = [th EXCEPT ![t] = Return(th[t], TRUE, NULL)]
            /\ UNCHANGED <<seq, assigned>>
       ELSE \E ok \in BOOLEAN :
              IF seqNative /\ ok
              THEN /\ th' = [th EXCEPT ![t].next_id = seq, ![t].pc = "insert"]
                   /\ seq' = seq + 1
                   /\ assigned' = Append(assigned, seq)
              ELSE /\ th' = [th EXCEPT ![t].pc = "fallback_select"]
                   /\ UNCHANGED <<seq, assigned>>
    /\ UNCHANGED <<cacheVars, analyzerVars>>
    /\ UNCHANGED <<conn, embedder, llm, seqNative, events, seqTable, clock,
                   calls, ctx>>

(* the except branch: SELECT val FROM _causal_events_seq *)
insert_event_fallback_select(t) ==
    /\ th[t].pc = "fallback_select"
    /\ \E ok \in BOOLEAN :
         IF seqNative \/ ~ok
         THEN /\ th' = [th EXCEPT ![t] = Except(th[t], "store")]
              /\ UNCHANGED <<seqTable, assigned>>
         ELSE LET empty == seqTable = <<>>
                  val == IF empty THEN 1 ELSE seqTable[1]
              IN  /\ seqTable' = IF empty THEN <<1>> ELSE seqTable
                  /\ th' = [th EXCEPT ![t].next_id = val,
                                      ![t].pc = "fallback_update"]
                  /\ assigned' = Append(assigned, val)
    /\ UNCHANGED <<cacheVars, analyzerVars>>
    /\ UNCHANGED <<conn, embedder, llm, seqNative, events, seq, clock, calls, ctx>>

(* UPDATE _causal_events_seq SET val = val + 1 *)
insert_event_fallback_update(t) ==
    /\ th[t].pc = "fallback_update"
    /\ \E ok \in BOOLEAN :
         IF ~ok
         THEN /\ th' = [th EXCEPT ![t] = Except(th[t], "store")]
              /\ UNCHANGED seqTable
         ELSE /\ seqTable' = [k \in 1..Len(seqTable) |-> seqTable[k] + 1]
              /\ th' = [th EXCEPT ![t].pc = "insert"]
    /\ UNCHANGED <<cacheVars, analyzerVars>>
    /\ UNCHANGED <<conn, embedder, llm, seqNative, events, seq, clock, calls,
                   assigned, ctx>>

(* mutant: a linked row carries its own id in the cause column *)
NewRow_SelfCause(call) ==
    [event_id |-> call.next_id, timestamp |-> clock,
     effect_text |-> call.effect_text, embedding |-> call.effect_embedding,
     cause_id |-> IF call.cause_id = NoId THEN NoId ELSE call.next_id,
     relationship_text |-> call.relationship_text,
     session_id |-> call.session_id, conversation_id |-> NULL]

(* the row _insert_event writes: the values of its INSERT *)
NewRow(call) ==
    [event_id |-> call.next_id, timestamp |-> clock,
     effect_text |-> call.effect_text, embedding |-> call.effect_embedding,
     cause_id |-> call.cause_id, relationship_text |-> call.relationship_text,
     session_id |-> call.session_id, conversation_id |-> NULL]

(* event_id INTEGER PRIMARY KEY *)
PrimaryKeyFree(id) == \A e \in events : e.event_id # id

(* mutant: the row replaces the stored rows of the same text *)
Inserted_Upsert(store, row) ==
    {e \in store : e.effect_text # row.effect_text} \cup {row}

(* the table after INSERT INTO causal_events ... VALUES (...) *)
Inserted(store, row) == store \cup {row}

(* INSERT INTO causal_events, and add_event's return True *)
insert_event_insert(t) ==
    /\ th[t].pc = "insert"
    /\ \E ok \in BOOLEAN :
         IF ok /\ PrimaryKeyFree(th[t].next_id)
         THEN /\ events' = Inserted(events, NewRow(th[t]))
              /\ th' = [th EXCEPT ![t] =
                          Return([th[t] EXCEPT !.appended = {NewRow(th[t])}],
                                 TRUE, NULL)]
         ELSE /\ th' = [th EXCEPT ![t] = Except(th[t], "store")]
              /\ UNCHANGED events
    /\ UNCHANGED <<cacheVars, analyzerVars>>
    /\ UNCHANGED <<conn, embedder, llm, seqNative, seq, seqTable, clock, calls,
                   assigned, ctx>>

(* the call has returned; the thread serves its next request *)
add_event_return(t) ==
    /\ th[t].pc = "done"
    /\ th' = [th EXCEPT ![t] = IdleThread]
    /\ UNCHANGED <<cacheVars, analyzerVars>>
    /\ UNCHANGED <<conn, embedder, llm, seqNative, events, seq, seqTable,
                   clock, calls, assigned, ctx>>

(* time passes *)
Tick ==
    /\ clock < MaxClock
    /\ clock' = clock + 1
    /\ UNCHANGED <<cacheVars, analyzerVars>>
    /\ UNCHANGED <<conn, embedder, llm, seqNative, events, seq, seqTable, th,
                   calls, assigned, ctx>>

-----------------------------------------------------------------------------
(* get_causal_context *)

MaxResults == 2
MaxHops == 2

(* no CausalEvent: None *)
NoEvent == [event_id |-> NoId]

IdleCtx ==
    [pc |-> "idle", query |-> NULL, session_id |-> NULL, q_emb |-> <<>>,
     target |-> NoEvent, ancestry |-> <<>>, seen |-> {}, curr |-> NoEvent,
     path |-> <<>>, consequences |-> <<>>, frontier |-> NoEvent, hop |-> 0,
     result |-> NULL,
     \* history: "narrative", "sentinel" or "error"
     kind |-> NULL]

ErrorMessages == {"disk I/O error", "model timeout"}

(* `return text`: the frame is gone; the locals of a narrative stay, as the *)
(* history of what was rendered                                            *)
CtxReturn(call, text, kind) ==
    IF kind = "narrative"
    THEN [call EXCEPT !.pc = "done", !.result = text, !.kind = kind]
    ELSE [IdleCtx EXCEPT !.pc = "done", !.result = text, !.kind = kind]

(* mutant: the handler logs and raises again *)
CtxExcept_Reraise(call, msg) ==
    [IdleCtx EXCEPT !.pc = "raised", !.kind = "error"]

(* except Exception as e: return f"Error retrieving causal context: {e}" *)
CtxExcept(call, msg) ==
    CtxReturn(call, "Error retrieving causal context: " \o msg, "error")

(* mutant: the parenthesis is written whether or not there is a text *)
Clause_AlwaysParenthesis(event, k) ==
    LET relationship == " (" \o event.relationship_text \o ")"
    IN  IF k = 2
        THEN "This led to " \o event.effect_text \o relationship
        ELSE "which in turn caused " \o event.effect_text \o relationship

(* _format_chain_as_narrative *)
Clause(event, k) ==
    LET relationship == IF Truthy(event.relationship_text)
                        THEN " (" \o event.relationship_text \o ")"
                        ELSE ""
    IN  IF k = 2
        THEN "This led to " \o event.effect_text \o relationship
        ELSE "which in turn caused " \o event.effect_text \o relationship

RECURSIVE JoinClauses(_, _)
JoinClauses(chain, k) ==
    IF k > Len(chain) THEN ""
    ELSE (IF k = 2 THEN "" ELSE ", ") \o Clause(chain[k], k)
         \o JoinClauses(chain, k + 1)

format_chain_as_narrative(chain) ==
    IF chain = <<>> THEN "No causal chain found."
    ELSE IF Len(chain) = 1
    THEN "Initially, " \o chain[1].effect_text \o "."
    ELSE "Initially, " \o chain[1].effect_text \o "." \o " "
         \o JoinClauses(chain, 2) \o "."

(* the pool of _find_most_relevant_event: WHERE session_id = ? if given *)
Pool(session_id) ==
    IF Truthy(session_id)
    THEN {e \in events : e.session_id = session_id}
    ELSE events

(* mutant: `>=` for `>`, the last row of equal similarity wins *)
RECURSIVE BestMatch_LastTieWins(_, _, _)
BestMatch_LastTieWins(rows, q, best) ==
    IF rows = <<>> THEN best
    ELSE LET r == Head(rows)
             similarity == Similarity(q, r.embedding)
         IN  IF Len(r.embedding) # Len(q) \/ Denom2(q, r.embedding) = 0
             THEN BestMatch_LastTieWins(Tail(rows), q, best)
             ELSE IF SimLess(best[1], similarity) \/ SimEq(similarity, best[1])
             THEN BestMatch_LastTieWins(Tail(rows), q,
                                        <<similarity, CausalEvent(r)>>)
             ELSE BestMatch_LastTieWins(Tail(rows), q, best)

(* the loop over rows of _find_most_relevant_event; best = <<sim, event>> *)
RECURSIVE BestMatch(_, _, _)
BestMatch(rows, q, best) ==
    IF rows = <<>> THEN best
    ELSE LET r == Head(rows)
             similarity == Similarity(q, r.embedding)
             newer == best[2] # NoEvent /\ r.timestamp > best[2].timestamp
         IN  IF Len(r.embedding) # Len(q) \/ Denom2(q, r.embedding) = 0
             THEN BestMatch(Tail(rows), q, best)
             ELSE IF SimLess(best[1], similarity)
                     \/ (SimEq(similarity, best[1]) /\ newer)
             THEN BestMatch(Tail(rows), q, <<similarity, CausalEvent(r)>>)
             ELSE BestMatch(Tail(rows), q, best)

(* best_event if best_sim >= self.similarity_threshold else None *)
MostRelevant(rows, q) ==
    LET best == BestMatch(rows, q, <<(<<0 - 1, 1>>), NoEvent>>)
    IN  IF AtLeastThreshold(best[1]) THEN best[2] ELSE NoEvent

(* the availability check and embedder.encode(query) *)
get_causal_context(query, session_id) ==
    /\ ctx.pc = "idle"
    /\ LET call == [IdleCtx EXCEPT !.query = query, !.session_id = session_id]
       IN  IF ~is_available
           THEN ctx' = CtxReturn(call, "Causal memory not available", "sentinel")
           ELSE \/ ctx' = [call EXCEPT !.pc = "find", !.q_emb = Encode(query)]
                \/ \E msg \in ErrorMessages : ctx' = CtxExcept(call, msg)
    /\ UNCHANGED <<cacheVars, analyzerVars>>
    /\ UNCHANGED <<conn, embedder, llm, seqNative, events, seq, seqTable,
                   clock, th, calls, assigned>>

(* _find_most_relevant_event, and the start of the ascend walk *)
find_most_relevant_event ==
    /\ ctx.pc = "find"
    /\ \/ \E msg \in ErrorMessages : ctx' = CtxExcept(ctx, msg)
       \/ \E target \in {MostRelevant(rows, ctx.q_emb) :
                          rows \in (IF conn
                                    THEN NewestFirst(Pool(ctx.session_id), MaxResults)
                                    ELSE {<<>>})} :
                IF target = NoEvent
                THEN ctx' = CtxReturn(ctx,
                              "No relevant causal context found in memory.",
                              "sentinel")
                ELSE ctx' = [ctx EXCEPT !.pc = "ascend", !.target = target,
                                        !.ancestry = <<target>>,
                                        !.seen = {target.event_id},
                                        !.curr = target]
    /\ UNCHANGED <<cacheVars, analyzerVars>>
    /\ UNCHANGED <<conn, embedder, llm, seqNative, events, seq, seqTable,
                   clock, th, calls, assigned>>

(* _get_event_by_id: the rows with this id (at most one) *)
EventsById(id) == {CausalEvent(e) : e \in {r \in events : r.event_id = id}}

(* mutant: the ancestry is kept in the order of the walk, target first *)
Reverse_Keep(s) == s

RECURSIVE Reverse(_)
Reverse(s) == IF s = <<>> THEN <<>> ELSE Append(Reverse(Tail(s)), Head(s))

(* leaving the while loop: path = list(reversed(ancestry)) *)
EndAscend(call) ==
    [call EXCEPT !.pc = "descend", !.path = Reverse(call.ancestry),
                 !.frontier = call.target, !.hop = 0]

(* mutant: no `if cause.event_id in seen: break` *)
AscendTurn_NoSeenCheck(call, found) ==
    IF found = {} THEN EndAscend(call)
    ELSE LET cause == CHOOSE c \in found : TRUE
         IN  [call EXCEPT !.ancestry = Append(@, cause),
                          !.seen = @ \cup {cause.event_id},
                          !.curr = cause]

(* one turn of `while curr.cause_id is not None`, given the rows found by  *)
(* _get_event_by_id(curr.cause_id)                                         *)
AscendTurn(call, found) ==
    IF found = {} THEN EndAscend(call)
    ELSE LET cause == CHOOSE c \in found : TRUE
         IN  IF cause.event_id \in call.seen
             THEN EndAscend(call)
             ELSE [call EXCEPT !.ancestry = Append(@, cause),
                               !.seen = @ \cup {cause.event_id},
                               !.curr = cause]

ascend ==
    /\ ctx.pc = "ascend"
    /\ IF ctx.curr.cause_id = NoId
       THEN ctx' = EndAscend(ctx)
       ELSE \/ \E msg \in ErrorMessages : ctx' = CtxExcept(ctx, msg)
            \/ ctx' = AscendTurn(ctx, IF conn THEN EventsById(ctx.curr.cause_id)
                                              ELSE {})
    /\ UNCHANGED <<cacheVars, analyzerVars>>
    /\ UNCHANGED <<conn, embedder, llm, seqNative, events, seq, seqTable,
                   clock, th, calls, assigned>>

(* _find_direct_effect: WHERE cause_id = ? ORDER BY timestamp ASC LIMIT 1, *)
(* every row the engine may return                                         *)
DirectEffects(id) ==
    LET children == {e \in events : e.cause_id = id}
    IN  {CausalEvent(e) : e \in {c \in children :
                \A d \in children : c.timestamp <= d.timestamp}}

IdsOf(chain) == {chain[k].event_id : k \in 1..Len(chain)}

(* return self._format_chain_as_narrative(path + consequences) *)
EndDescend(call) ==
    CtxReturn(call, format_chain_as_narrative(call.path \o call.consequences),
              "narrative")

(* mutant: no check of the child against the ascend path *)
DescendTurn_NoPathCheck(call, child) ==
    IF child = NoEvent
    THEN EndDescend(call)
    ELSE LET next == [call EXCEPT !.consequences = Append(@, child),
                                  !.frontier = child, !.hop = @ + 1]
         IN  IF next.hop = MaxHops THEN EndDescend(next) ELSE next

(* one turn of `for _ in range(2)`, given the child found *)
DescendTurn(call, child) ==
    IF child = NoEvent \/ child.event_id \in IdsOf(call.path)
    THEN EndDescend(call)
    ELSE LET next == [call EXCEPT !.consequences = Append(@, child),
                                  !.frontier = child, !.hop = @ + 1]
         IN  IF next.hop = MaxHops THEN EndDescend(next) ELSE next

descend ==
    /\ ctx.pc = "descend"
    /\ \/ \E msg \in ErrorMessages : ctx' = CtxExcept(ctx, msg)
       \/ LET found == IF conn THEN DirectEffects(ctx.frontier.event_id) ELSE {}
          IN  IF found = {}
              THEN ctx' = DescendTurn(ctx, NoEvent)
              ELSE \E child \in found : ctx' = DescendTurn(ctx, child)
    /\ UNCHANGED <<cacheVars, analyzerVars>>
    /\ UNCHANGED <<conn, embedder, llm, seqNative, events, seq, seqTable,
                   clock, th, calls, assigned>>

(* the caller has its string; the next query may come *)
get_causal_context_return ==
    /\ ctx.pc = "done"
    /\ ctx' = IdleCtx
    /\ UNCHANGED <<cacheVars, analyzerVars>>
    /\ UNCHANGED <<conn, embedder, llm, seqNative, events, seq, seqTable,
                   clock, th, calls, assigned>>

-----------------------------------------------------------------------------
(* after __init__: _initialize either sets the connection up or leaves all *)
(* three handles None; the API key and the embedding model may be missing  *)
Init ==
    /\ conn \in BOOLEAN
    /\ embedder \in BOOLEAN
    /\ llm \in BOOLEAN
    /\ ~conn => (~embedder /\ ~llm)
    /\ seqNative \in BOOLEAN
    /\ events = {}
    /\ seq = 1
    /\ seqTable = IF seqNative THEN <<>> ELSE <<1>>
    /\ clock = 1
    /\ th = [t \in Threads |-> IdleThread]
    /\ calls = 0
    /\ assigned = <<>>
    /\ ctx = IdleCtx
    /\ CacheInit
    /\ ca = IdleAnalyzer

Next ==
    \/ \E t \in Threads, text \in Texts, sid \in Sessions : add_event(t, text, sid)
    \/ \E t \in Threads : find_potential_causes(t)
    \/ \E t \in Threads : judge_causality(t)
    \/ \E t \in Threads : insert_event_nextval(t)
    \/ \E t \in Threads : insert_event_fallback_select(t)
    \/ \E t \in Threads : insert_event_fallback_update(t)
    \/ \E t \in Threads : insert_event_insert(t)
    \/ \E t \in Threads : add_event_return(t)
    \/ Tick

Spec == Init /\ [][Next]_vars

-----------------------------------------------------------------------------

(* SpecCtx: get_causal_context over a store of arbitrary content *)

StoreSize == 4

TextOrder == <<"A", "B", "C">>
TextOf(id) == TextOrder[((id - 1) % Len(TextOrder)) + 1]
SessionOf(id) == IF id = StoreSize THEN "s2" ELSE "s1"

Stamps == {1, 2}

(* a row as _insert_event writes it, with any cause_id and timestamp *)
StoredRow(id, cause_id, timestamp) ==
    [event_id |-> id, timestamp |-> timestamp,
     effect_text |-> TextOf(id), embedding |-> Encode(TextOf(id)),
     cause_id |-> cause_id,
     relationship_text |-> IF cause_id = NoId THEN NULL ELSE "it led to it",
     session_id |-> SessionOf(id), conversation_id |-> NULL]

(* cause ids: none, any stored id (the own one too), or a dangling one *)
InitCtx ==
    /\ conn \in BOOLEAN
    /\ embedder \in BOOLEAN
    /\ llm = FALSE
    /\ ~conn => ~embedder
    /\ seqNative = TRUE
    /\ \E cause \in [1..StoreSize -> 0..(StoreSize + 1)],
          stamp \in [1..StoreSize -> Stamps] :
            events = {StoredRow(id, cause[id], stamp[id]) : id \in 1..StoreSize}
    /\ seq = StoreSize + 1
    /\ seqTable = <<>>
    /\ clock = 2
    /\ th = [t \in Threads |-> IdleThread]
    /\ calls = 0
    /\ assigned = <<>>
    /\ ctx = IdleCtx
    /\ CacheInit
    /\ ca = IdleAnalyzer

(* the session_id argument: none, a session with events, one without *)
QuerySessions == {NULL, "s1", "s3"}

NextCtx ==
    \/ \E query \in Texts, sid \in QuerySessions : get_causal_context(query, sid)
    \/ find_most_relevant_event
    \/ ascend
    \/ descend
    \/ get_causal_context_return

SpecCtx == InitCtx /\ [][NextCtx]_vars

-----------------------------------------------------------------------------
(* SpecChain: one request thread records events with add_event while      *)
(* get_causal_context is served on the same store                         *)

Writer == 1

NextChain ==
    \/ \E text \in Texts, sid \in Sessions : add_event(Writer, text, sid)
    \/ find_potential_causes(Writer)
    \/ judge_causality(Writer)
    \/ insert_event_nextval(Writer)
    \/ insert_event_fallback_select(Writer)
    \/ insert_event_fallback_update(Writer)
    \/ insert_event_insert(Writer)
    \/ add_event_return(Writer)
    \/ Tick
    \/ \E query \in Texts, sid \in QuerySessions : get_causal_context(query, sid)
    \/ find_most_relevant_event
    \/ ascend
    \/ descend
    \/ get_causal_context_return

SpecChain == Init /\ [][NextChain]_vars

-----------------------------------------------------------------------------
(* SpecLink: one add_event on a store that holds more rows than the        *)
(* candidate search fetches, among them rows of the same text, rows out of *)
(* the time window and rows whose embedding has no direction or another    *)
(* dimension (written under another embedding model)                       *)

EmbeddingKinds == {"model", "zero", "other"}

EmbeddingOf(text, kind) ==
    CASE kind = "model" -> Encode(text)
      [] kind = "zero" -> <<0, 0>>
      [] kind = "other" -> <<1, 0, 0>>

LinkRow(id, timestamp, kind) ==
    [event_id |-> id, timestamp |-> timestamp,
     effect_text |-> TextOf(id), embedding |-> EmbeddingOf(TextOf(id), kind),
     cause_id |-> NoId, relationship_text |-> NULL,
     session_id |-> SessionOf(id), conversation_id |-> NULL]

InitLink ==
    /\ conn = TRUE /\ embedder = TRUE /\ llm = TRUE
    /\ seqNative \in BOOLEAN
    /\ \E stamp \in [1..StoreSize -> Stamps],
          kind \in [1..StoreSize -> EmbeddingKinds] :
            events = {LinkRow(id, stamp[id], kind[id]) : id \in 1..StoreSize}
    /\ seq = StoreSize + 1
    /\ seqTable = IF seqNative THEN <<>> ELSE <<StoreSize + 1>>
    /\ clock = 2
    /\ th = [t \in Threads |-> IdleThread]
    /\ calls = MaxCalls - 1
    /\ assigned = <<>>
    /\ ctx = IdleCtx
    /\ CacheInit
    /\ ca = IdleAnalyzer

NextLink ==
    \/ \E text \in Texts, sid \in Sessions : add_event(Writer, text, sid)
    \/ find_potential_causes(Writer)
    \/ judge_causality(Writer)
    \/ insert_event_nextval(Writer)
    \/ insert_event_fallback_select(Writer)
    \/ insert_event_fallback_update(Writer)
    \/ insert_event_insert(Writer)
    \/ add_event_return(Writer)

SpecLink == InitLink /\ [][NextLink]_vars

-----------------------------------------------------------------------------
(* BoundedSessionCache: cachetools.LRUCache and the dict of timestamps *)

Put(d, k, v) == [x \in DOMAIN d \cup {k} |-> IF x = k THEN v ELSE d[x]]
Drop(d, K) == [x \in DOMAIN d \ K |-> d[x]]
DictGet(d, k, default) == IF k \in DOMAIN d THEN d[k] ELSE default

(* LRUCache as the sequence of its items, least recently used first *)
KeysOf(c) == {c[i].key : i \in 1..Len(c)}
ValueOf(c, k) == c[CHOOSE i \in 1..Len(c) : c[i].key = k].value
Without(c, k) == SelectSeq(c, LAMBDA item : item.key # k)

(* mutant: a read leaves the order of use as it is *)
LRUGetItem_NoTouch(c, k) == c

(* LRUCache.__getitem__ on a key it holds: the item moves to the end *)
LRUGetItem(c, k) == Append(Without(c, k), [key |-> k, value |-> ValueOf(c, k)])

(* mutant: popitem takes the item used last *)
RECURSIVE Evict_Newest(_)
Evict_Newest(c) ==
    IF Len(c) + 1 > maxsize /\ c # <<>>
    THEN Evict_Newest(SubSeq(c, 1, Len(c) - 1))
    ELSE c

(* Cache.__setitem__ on a new key: while currsize + size > maxsize:      *)
(* self.popitem(), which takes the first key of the order                *)
RECURSIVE Evict(_)
Evict(c) ==
    IF Len(c) + 1 > maxsize /\ c # <<>> THEN Evict(Tail(c)) ELSE c

(* LRUCache.__setitem__ *)
LRUSetItem(c, k, v) ==
    IF k \in KeysOf(c)
    THEN Append(Without(c, k), [key |-> k, value |-> v])
    ELSE Append(Evict(c), [key |-> k, value |-> v])

(* mutant: clear leaves the item used last *)
Cleared_KeepsNewest(c) == IF c = <<>> THEN c ELSE <<c[Len(c)]>>

(* LRUCache.clear(): popitem until the cache is empty *)
Cleared(c) == <<>>

(* mutant: an entry is still served when exactly ttl seconds have passed *)
Fresh_Inclusive(at, stamp) == at - stamp <= ttl

(* time.time() - self._timestamps.get(key, 0) < self._ttl *)
Fresh(at, stamp) == at - stamp < ttl

(* `return value` of get, set or clear *)
CacheReturn(call, value) == [call EXCEPT !.pc = "done", !.result = value]

(* a request handler enters get(key), set(key, value) or clear() *)
cache_call(t, op, key, value) ==
    /\ cth[t].pc = "idle"
    /\ cops < MaxOps
    /\ cops' = cops + 1
    /\ cth' = [cth EXCEPT ![t] =
                 [IdleCache EXCEPT
                    !.pc = CASE op = "get" -> "contains"
                             [] op = "set" -> "store"
                             [] op = "clear" -> "clear_cache",
                    !.op = op, !.key = key, !.value = value,
                    !.id = cops + 1, !.started_at = now,
                    !.present = key \in KeysOf(cache),
                    !.expect = IF op = "get"
                               THEN DictGet(hist.latest, key, [id |-> 0])
                               ELSE [id |-> 0]]]
    /\ UNCHANGED <<cache, timestamps, now, hist>>
    /\ UNCHANGED <<coreVars, analyzerVars>>

(* get: if key in self._cache *)
get_contains(t) ==
    /\ cth[t].pc = "contains"
    /\ cth' = [cth EXCEPT ![t] =
                 IF cth[t].key \in KeysOf(cache)
                 THEN [cth[t] EXCEPT !.pc = "expiry"]
                 ELSE CacheReturn(cth[t], NULL)]
    /\ UNCHANGED <<cache, timestamps, now, cops, hist>>
    /\ UNCHANGED <<coreVars, analyzerVars>>

(* get: if time.time() - self._timestamps.get(key, 0) < self._ttl *)
get_expiry(t) ==
    /\ cth[t].pc = "expiry"
    /\ cth' = [cth EXCEPT ![t].checked_at = now,
                          ![t].pc = IF Fresh(now, DictGet(timestamps, cth[t].key, 0))
                                    THEN "read" ELSE "pop_cache"]
    /\ UNCHANGED <<cache, timestamps, now, cops, hist>>
    /\ UNCHANGED <<coreVars, analyzerVars>>

(* get: return self._cache[key]; KeyError if the key is gone *)
get_read(t) ==
    /\ cth[t].pc = "read"
    /\ IF cth[t].key \in KeysOf(cache)
       THEN /\ cache' = LRUGetItem(cache, cth[t].key)
            /\ cth' = [cth EXCEPT ![t] =
                         CacheReturn(cth[t], ValueOf(cache, cth[t].key))]
            /\ hist' = [hist EXCEPT !.lastUse = Put(@, cth[t].key, cth[t].id)]
       ELSE /\ cth' = [cth EXCEPT ![t].pc = "raised"]
            /\ UNCHANGED <<cache, hist>>
    /\ UNCHANGED <<timestamps, now, cops>>
    /\ UNCHANGED <<coreVars, analyzerVars>>

(* get: self._cache.pop(key, None) *)
get_pop_cache(t) ==
    /\ cth[t].pc = "pop_cache"
    /\ cache' = Without(cache, cth[t].key)
    /\ cth' = [cth EXCEPT ![t].pc = "pop_timestamp"]
    /\ UNCHANGED <<timestamps, now, cops, hist>>
    /\ UNCHANGED <<coreVars, analyzerVars>>

(* get: self._timestamps.pop(key, None); return None *)
get_pop_timestamp(t) ==
    /\ cth[t].pc = "pop_timestamp"
    /\ timestamps' = Drop(timestamps, {cth[t].key})
    /\ cth' = [cth EXCEPT ![t] = CacheReturn(cth[t], NULL)]
    /\ UNCHANGED <<cache, now, cops, hist>>
    /\ UNCHANGED <<coreVars, analyzerVars>>

(* set: self._cache[key] = value *)
set_store(t) ==
    /\ cth[t].pc = "store"
    /\ cache' = LRUSetItem(cache, cth[t].key, cth[t].value)
    /\ cth' = [cth EXCEPT ![t].pc = "stamp"]
    /\ LET evicted == KeysOf(cache) \ KeysOf(cache')
           k == cth[t].key
       IN  hist' = [hist EXCEPT
                      !.latest = Drop(@, evicted \cup {k}),
                      !.writer = Put(Drop(@, evicted), k, t),
                      !.stored[k] = @ \cup {cth[t].value},
                      !.lastUse = Put(Drop(@, evicted), k, cth[t].id)]
    /\ UNCHANGED <<timestamps, now, cops>>
    /\ UNCHANGED <<coreVars, analyzerVars>>

(* set: self._timestamps[key] = time.time() *)
set_stamp(t) ==
    /\ cth[t].pc = "stamp"
    /\ timestamps' = Put(timestamps, cth[t].key, now)
    /\ cth' = [cth EXCEPT ![t] = CacheReturn(cth[t], NULL)]
    /\ hist' = IF DictGet(hist.writer, cth[t].key, 0) = t
               THEN [hist EXCEPT !.latest =
                        Put(@, cth[t].key, [id |-> cth[t].id, at |-> now,
                                            value |-> cth[t].value])]
               ELSE hist
    /\ UNCHANGED <<cache, now, cops>>
    /\ UNCHANGED <<coreVars, analyzerVars>>

(* clear: self._cache.clear() *)
clear_cache(t) ==
    /\ cth[t].pc = "clear_cache"
    /\ cache' = Cleared(cache)
    /\ cth' = [cth EXCEPT ![t].pc = "clear_timestamps"]
    /\ hist' = [hist EXCEPT !.latest = EmptyDict, !.writer = EmptyDict,
                            !.lastUse = EmptyDict]
    /\ UNCHANGED <<timestamps, now, cops>>
    /\ UNCHANGED <<coreVars, analyzerVars>>

(* clear: self._timestamps.clear() *)
clear_timestamps(t) ==
    /\ cth[t].pc = "clear_timestamps"
    /\ timestamps' = EmptyDict
    /\ cth' = [cth EXCEPT ![t] = CacheReturn(cth[t], NULL)]
    /\ hist' = [hist EXCEPT !.latest = EmptyDict, !.writer = EmptyDict]
    /\ UNCHANGED <<cache, now, cops>>
    /\ UNCHANGED <<coreVars, analyzerVars>>

(* the call has returned, or its KeyError has ended the request *)
cache_return(t) ==
    /\ cth[t].pc \in {"done", "raised"}
    /\ cth' = [cth EXCEPT ![t] = IdleCache]
    /\ UNCHANGED <<cache, timestamps, now, cops, hist>>
    /\ UNCHANGED <<coreVars, analyzerVars>>

(* a second passes *)
CacheTick ==
    /\ now < ttl + MaxElapsed
    /\ now' = now + 1
    /\ UNCHANGED <<cache, timestamps, cth, cops, hist>>
    /\ UNCHANGED <<coreVars, analyzerVars>>

(* the core as constructed and left alone *)
CoreIdle ==
    /\ conn = TRUE /\ embedder = TRUE /\ llm = TRUE /\ seqNative = TRUE
    /\ events = {}
    /\ seq = 1
    /\ seqTable = <<>>
    /\ clock = 1
    /\ th = [t \in Threads |-> IdleThread]
    /\ calls = 0
    /\ assigned = <<>>
    /\ ctx = IdleCtx

InitCache == CoreIdle /\ CacheInit /\ ca = IdleAnalyzer

CacheCall(t) ==
    \/ \E key \in CacheKeys : cache_call(t, "get", key, NULL)
    \/ \E key \in CacheKeys, value \in CacheValues : cache_call(t, "set", key, value)

CacheStep(t) ==
    \/ get_contains(t)
    \/ get_expiry(t)
    \/ get_read(t)
    \/ get_pop_cache(t)
    \/ get_pop_timestamp(t)
    \/ set_store(t)
    \/ set_stamp(t)
    \/ cache_return(t)

CacheClear(t) ==
    \/ cache_call(t, "clear", NULL, NULL)
    \/ clear_cache(t)
    \/ clear_timestamps(t)

(* SpecCache: one caller at a time uses get, set and clear *)
NextCache ==
    \/ CacheCall(Writer)
    \/ CacheStep(Writer)
    \/ CacheClear(Writer)
    \/ CacheTick

SpecCache == InitCache /\ [][NextCache]_vars

(* SpecCacheRace: the handlers of concurrent requests use get and set, as  *)
(* the memory service does                                                 *)
NextCacheRace ==
    \/ cops < MaxRaceOps /\ \E t \in Threads : CacheCall(t)
    \/ \E t \in Threads : CacheStep(t)
    \/ CacheTick

SpecCacheRace == InitCache /\ [][NextCacheRace]_vars

-----------------------------------------------------------------------------
(* ContextAnalyzer (src/src/utils/context_analyzer.py): the functions *)

max_context_age_hours == 24

(* self.similarity_threshold = 0.7 = RelevanceNum / RelevanceDen *)
RelevanceNum == 7
RelevanceDen == 10

TopicLimit == 10

stop_words ==
    {"the", "a", "an", "and", "or", "but", "in", "on", "at", "to", "for",
     "of", "with", "by", "is", "are", "was", "were", "be", "been", "being",
     "have", "has", "had", "do", "does", "did", "will", "would", "could",
     "should", "may", "might", "can", "shall", "this", "that", "these",
     "those", "i", "you", "he", "she", "it", "we", "they", "me", "him",
     "her", "us", "them", "my", "your", "his", "its", "our", "their"}

Digits == "0123456789"

IsLowerLetter(c) == \E k \in 1..Len(LowerCase) : SubSeq(LowerCase, k, k) = c

(* \w of the regular expression, on lowercased text *)
IsWordChar(c) ==
    \/ IsLowerLetter(c)
    \/ \E k \in 1..Len(Digits) : SubSeq(Digits, k, k) = c
    \/ c = "_"

AllLetters(run) == \A k \in 1..Len(run) : IsLowerLetter(SubSeq(run, k, k))

(* a maximal run of word characters matches \b[a-zA-Z]{3,}\b if it is made *)
(* of letters only and has three of them at least: inside the run there is *)
(* no word boundary, so no part of it can match                            *)
Match(run) == IF Len(run) >= 3 /\ AllLetters(run) THEN <<run>> ELSE <<>>

(* re.findall(r'\b[a-zA-Z]{3,}\b', s), s lowercased: scan from position i  *)
(* with the word characters read since the last boundary                   *)
RECURSIVE FindAll(_, _, _)
FindAll(s, i, run) ==
    IF i > Len(s) THEN Match(run)
    ELSE LET c == SubSeq(s, i, i)
         IN  IF IsWordChar(c) THEN FindAll(s, i + 1, run \o c)
             ELSE Match(run) \o FindAll(s, i + 1, "")

Words(text) == FindAll(Lower(text), 1, "")

Range(s) == {s[k] : k \in 1..Len(s)}

(* mutant: the stop words stay among the words *)
Meaningful_KeepsStopWords(words) == words

(* [word for word in words if word not in self.stop_words] *)
Meaningful(words) == SelectSeq(words, LAMBDA w : w \notin stop_words)

(* Counter(words): the distinct words in the order of their first use,     *)
(* each with its count                                                     *)
RECURSIVE FirstSeen(_)
FirstSeen(words) ==
    IF words = <<>> THEN <<>>
    ELSE LET before == FirstSeen(SubSeq(words, 1, Len(words) - 1))
             w == words[Len(words)]
         IN  IF w \in Range(before) THEN before ELSE Append(before, w)

Count(words, w) == Cardinality({k \in 1..Len(words) : words[k] = w})

(* Counter.most_common(n): by count, descending; equal counts stay in the  *)
(* order of first use                                                      *)
RECURSIVE InsertByCount(_, _, _)
InsertByCount(sorted, w, words) ==
    IF sorted = <<>> THEN <<w>>
    ELSE IF Count(words, Head(sorted)) < Count(words, w) THEN <<w>> \o sorted
    ELSE <<Head(sorted)>> \o InsertByCount(Tail(sorted), w, words)

RECURSIVE ByCount(_, _)
ByCount(distinct, words) ==
    IF distinct = <<>> THEN <<>>
    ELSE InsertByCount(ByCount(SubSeq(distinct, 1, Len(distinct) - 1), words),
                       distinct[Len(distinct)], words)

MostCommon(words, n) ==
    LET ranked == ByCount(FirstSeen(words), words)
    IN  SubSeq(ranked, 1, Min(n, Len(ranked)))

extract_key_topics(conversation_text) ==
    IF conversation_text = "" THEN <<>>
    ELSE MostCommon(Meaningful(Words(conversation_text)), TopicLimit)

(* a score is the fraction <<n, d>>, d > 0 *)
Zero == <<0, 1>>
Times(x, y) == <<x[1] * y[1], x[2] * y[2]>>

(* an entry: a dict with the keys 'directive', 'created_at' and, once a    *)
(* filter has kept it, 'relevance_score'; a missing key is marked          *)
NoTime == -1000
NoScore == <<-1, 1>>
EmptyEntry == [directive |-> "", created_at |-> NoTime, relevance_score |-> NoScore]

(* mutant: the overlap is measured against the words of the directive *)
Jaccard_OverCurrent(current_words, historical_words) ==
    <<Cardinality(current_words \cap historical_words),
      Cardinality(current_words)>>

(* len(intersection) / len(union), the union not empty *)
Jaccard(current_words, historical_words) ==
    <<Cardinality(current_words \cap historical_words),
      Cardinality(current_words \cup historical_words)>>

(* mutant: an entry counts in full until it is max_context_age_hours old *)
TimeDecay_Step(age_hours) ==
    IF age_hours < max_context_age_hours THEN <<1, 1>> ELSE <<0, 1>>

(* max(0, 1 - (age_hours / self.max_context_age_hours)) *)
TimeDecay(age_hours) ==
    IF max_context_age_hours - age_hours < 0 THEN <<0, 1>>
    ELSE <<max_context_age_hours - age_hours, max_context_age_hours>>

calculate_relevance_score(current_directive, historical_conversation, utcnow) ==
    IF current_directive = "" \/ historical_conversation = EmptyEntry THEN Zero
    ELSE LET current_words == Range(Words(current_directive)) \ stop_words
             historical_words ==
                 Range(Words(historical_conversation.directive)) \ stop_words
         IN  IF current_words = {} /\ historical_words = {} THEN Zero
             ELSE IF current_words \cup historical_words = {} THEN Zero
             ELSE LET created_at ==
                          IF historical_conversation.created_at = NoTime
                          THEN utcnow
                          ELSE historical_conversation.created_at
                  IN  Times(Jaccard(current_words, historical_words),
                            TimeDecay(utcnow - created_at))

(* relevance_score >= self.similarity_threshold *)
Relevant(score) == ~SimLess(score, <<RelevanceNum, RelevanceDen>>)

(* mutant: the list is sorted with the lowest score first *)
RECURSIVE InsertByScore_Ascending(_, _)
InsertByScore_Ascending(sorted, x) ==
    IF sorted = <<>> THEN <<x>>
    ELSE IF SimLess(x.relevance_score, Head(sorted).relevance_score)
         THEN <<x>> \o sorted
    ELSE <<Head(sorted)>> \o InsertByScore_Ascending(Tail(sorted), x)

(* relevant_context.sort(key=relevance_score, reverse=True): descending,   *)
(* equal scores stay in their order                                        *)
RECURSIVE InsertByScore(_, _)
InsertByScore(sorted, x) ==
    IF sorted = <<>> THEN <<x>>
    ELSE IF SimLess(Head(sorted).relevance_score, x.relevance_score)
         THEN <<x>> \o sorted
    ELSE <<Head(sorted)>> \o InsertByScore(Tail(sorted), x)

RECURSIVE SortByScore(_)
SortByScore(list) ==
    IF list = <<>> THEN <<>>
    ELSE InsertByScore(SortByScore(SubSeq(list, 1, Len(list) - 1)), list[Len(list)])

(* the loop of filter_relevant_context: the dicts of the input list after  *)
(* it; a kept dict has its score attached                                  *)
Scored(current_directive, historical_conversations, utcnow) ==
    [k \in 1..Len(historical_conversations) |->
        LET conversation == historical_conversations[k]
            relevance_score ==
                calculate_relevance_score(current_directive, conversation, utcnow)
        IN  IF Relevant(relevance_score)
            THEN [conversation EXCEPT !.relevance_score = relevance_score]
            ELSE conversation]

(* filter_relevant_context: the list it returns *)
filter_relevant_context(current_directive, historical_conversations, utcnow) ==
    LET after == Scored(current_directive, historical_conversations, utcnow)
        kept == {k \in 1..Len(after) :
                   Relevant(calculate_relevance_score(
                       current_directive, historical_conversations[k], utcnow))}
        relevant_context ==
            SelectSeq([k \in 1..Len(after) |-> [index |-> k, entry |-> after[k]]],
                      LAMBDA x : x.index \in kept)
    IN  SortByScore([k \in 1..Len(relevant_context) |-> relevant_context[k].entry])

-----------------------------------------------------------------------------
(* SpecAnalyzer: the functions of ContextAnalyzer applied to bounded inputs *)

MaxEntries == 3
MaxWords == 3

UtcNow == 100

(* directives: empty, stop words only, shared and disjoint words, mixed     *)
(* case, runs with a digit or an underscore in them                        *)
Directives ==
    {"", "The and", "Python email", "python EMAIL validation",
     "validate email2 python_3", "Create schema"}

(* created_at: missing, later than now, now, and 6, 12, 24 and 48 hours ago *)
CreatedAts ==
    {NoTime, UtcNow + 6, UtcNow, UtcNow - 6, UtcNow - 12,
     UtcNow - max_context_age_hours, UtcNow - 2 * max_context_age_hours}

Entries ==
    {[directive |-> d, created_at |-> c, relevance_score |-> NoScore] :
        d \in Directives, c \in CreatedAts} \cup {EmptyEntry}

(* the entries of the lists to filter; one still carries the score of an   *)
(* earlier filtering                                                       *)
FilterDirectives == {"Python email", "python EMAIL validation"}

ListEntries ==
    {[directive |-> d, created_at |-> c, relevance_score |-> NoScore] :
        d \in FilterDirectives, c \in {UtcNow, UtcNow - 6, UtcNow - 12}}
    \cup {EmptyEntry,
          [directive |-> "Create schema", created_at |-> UtcNow,
           relevance_score |-> <<1, 1>>]}

EntryLists == UNION {[1..n -> ListEntries] : n \in 0..MaxEntries}

(* texts: up to MaxWords words of the vocabulary, the scenario of the      *)
(* specification, and a text of more distinct words than are returned      *)
Vocabulary == {"The", "and", "cat", "Dog", "ox", "cat2"}

RECURSIVE Sentence(_)
Sentence(ws) ==
    IF ws = <<>> THEN ""
    ELSE IF Len(ws) = 1 THEN ws[1]
    ELSE ws[1] \o ", " \o Sentence(Tail(ws))

TopicTexts ==
    {Sentence(ws) : ws \in UNION {[1..n -> Vocabulary] : n \in 0..MaxWords}}
    \cup {"The the the and and cat cat dog",
          "ant bee cat dog eel fox gnu hen jay kit owl owl"}

(* ContextAnalyzer.calculate_relevance_score is called *)
score(current_directive, entry) ==
    /\ ca.pc = "idle"
    /\ ca' = [IdleAnalyzer EXCEPT
                !.pc = "done", !.op = "score",
                !.current_directive = current_directive,
                !.historical_conversations = <<entry>>,
                !.utcnow = UtcNow,
                !.result = calculate_relevance_score(current_directive, entry, UtcNow)]
    /\ UNCHANGED <<coreVars, cacheVars>>

(* ContextAnalyzer.filter_relevant_context is called: it returns the list  *)
(* and leaves the scores in the dicts of the caller's list                 *)
filter(current_directive, entries) ==
    /\ ca.pc = "idle"
    /\ ca' = [IdleAnalyzer EXCEPT
                !.pc = "done", !.op = "filter",
                !.current_directive = current_directive,
                !.historical_conversations =
                    Scored(current_directive, entries, UtcNow),
                !.utcnow = UtcNow,
                !.result = [given |-> entries,
                            returned |-> filter_relevant_context(
                                             current_directive, entries, UtcNow)]]
    /\ UNCHANGED <<coreVars, cacheVars>>

(* ContextAnalyzer.extract_key_topics is called *)
topics(conversation_text) ==
    /\ ca.pc = "idle"
    /\ ca' = [IdleAnalyzer EXCEPT
                !.pc = "done", !.op = "topics",
                !.conversation_text = conversation_text,
                !.result = extract_key_topics(conversation_text)]
    /\ UNCHANGED <<coreVars, cacheVars>>

analyzer_return ==
    /\ ca.pc = "done"
    /\ ca' = IdleAnalyzer
    /\ UNCHANGED <<coreVars, cacheVars>>

InitAnalyzer == CoreIdle /\ CacheInit /\ ca = IdleAnalyzer

NextAnalyzer ==
    \/ \E d \in Directives, entry \in Entries : score(d, entry)
    \/ \E d \in FilterDirectives, entries \in EntryLists : filter(d, entries)
    \/ \E text \in TopicTexts : topics(text)
    \/ analyzer_return

SpecAnalyzer == InitAnalyzer /\ [][NextAnalyzer]_vars

-----------------------------------------------------------------------------
(* SpecFormat: _format_chain_as_narrative applied to any chain of at most *)
(* MaxChain events, with and without relationship texts                   *)

MaxChain == 3

RelationshipTexts == {NULL, "", "it led to it"}

ChainEvent(id, text, relationship) ==
    [event_id |-> id, timestamp |-> 1, effect_text |-> text,
     embedding |-> Encode(text), cause_id |-> NoId,
     relationship_text |-> relationship]

Chains ==
    UNION {{[k \in 1..n |-> ChainEvent(k, text[k], rel[k])] :
               text \in [1..n -> Texts], rel \in [1..n -> RelationshipTexts]} :
           n \in 0..MaxChain}

InitFormat ==
    /\ conn = TRUE /\ embedder = TRUE /\ llm = TRUE /\ seqNative = TRUE
    /\ events = {}
    /\ seq = 1
    /\ seqTable = <<>>
    /\ clock = 1
    /\ th = [t \in Threads |-> IdleThread]
    /\ calls = 0
    /\ assigned = <<>>
    /\ \E chain \in Chains : ctx = [IdleCtx EXCEPT !.path = chain]
    /\ CacheInit
    /\ ca = IdleAnalyzer

(* return self._format_chain_as_narrative(path + consequences) *)
render ==
    /\ ctx.pc = "idle"
    /\ ctx' = EndDescend(ctx)
    /\ UNCHANGED <<cacheVars, analyzerVars>>
    /\ UNCHANGED <<conn, embedder, llm, seqNative, events, seq, seqTable,
                   clock, th, calls, assigned>>

SpecFormat == InitFormat /\ [][render]_vars

-----------------------------------------------------------------------------
(* Claims about add_event, checked under Spec *)

InCall(t) == th[t].pc \notin {"idle"}
Done(t) == th[t].pc = "done"

(* C1: no two stored events share an event_id, and every id handed out by  *)
(* _insert_event is strictly greater than all ids handed out before it,    *)
(* with concurrent add_event calls, on the native sequence and on the      *)
(* fallback counter table alike.                                           *)
C1_UniqueIncreasingIds ==
    /\ \A e1, e2 \in events : e1.event_id = e2.event_id => e1 = e2
    /\ \A j, k \in 1..Len(assigned) : j < k => assigned[j] < assigned[k]

(* a row with all its columns filled in *)
Complete(r) ==
    /\ r.event_id # NoId
    /\ r.timestamp = clock'
    /\ r.effect_text \in Texts
    /\ r.embedding = Encode(r.effect_text)
    /\ r.session_id \in Sessions

(* C2: every add_event call either appends exactly one complete event,     *)
(* carrying the cause_id and relationship_text the call settled on, and    *)
(* returns True, or appends nothing and returns False; the store changes   *)
(* only in the step that completes a successful call.                      *)
C2_AllOrNothing ==
    [][ /\ \A t \in Threads :
             (th[t].pc # "done" /\ th'[t].pc = "done") =>
                \/ /\ th'[t].result = TRUE
                   /\ \E r \in events' \ events :
                        /\ events' = events \cup {r}
                        /\ Complete(r)
                        /\ r.effect_text = th'[t].effect_text
                        /\ r.cause_id = th'[t].cause_id
                        /\ r.relationship_text = th'[t].relationship_text
                \/ /\ th'[t].result = FALSE
                   /\ events' = events
        /\ events' # events =>
             \E t \in Threads : th[t].pc # "done" /\ th'[t].pc = "done"
      ]_vars

C2_Witness ==
    \E t, u \in Threads :
        /\ Done(t) /\ th[t].result = TRUE /\ th[t].cause_id # NoId
        /\ Done(u) /\ th[u].result = FALSE /\ th[u].failure = "store"
        /\ th[u].cause_id # NoId

(* the call of thread t found the embedding service absent or failing *)
EmbeddingUnavailable(t) == th[t].failure \in {"no embedder", "embedding"}

RootRow(r) == r.cause_id = NoId /\ r.relationship_text = NULL

SimTo(call, c) == Similarity(call.effect_embedding, c.embedding)

(* C4: the oracle is consulted on the ranked candidates one at a time in   *)
(* rank order (similarity descending, then timestamp descending); the      *)
(* event is linked to the first candidate with a non-empty relationship:   *)
(* all candidates before it were consulted and rejected, none after it is  *)
(* consulted.                                                              *)
C4_FirstConfirmedWins ==
    \A t \in Threads :
        LET call == th[t]
            pcs == call.potential_causes
            cons == call.consulted
            n == Len(cons)
        IN  /\ \A j, k \in 1..Len(pcs) : j < k =>
                   \/ SimLess(SimTo(call, pcs[k]), SimTo(call, pcs[j]))
                   \/ /\ SimEq(SimTo(call, pcs[k]), SimTo(call, pcs[j]))
                      /\ pcs[k].timestamp <= pcs[j].timestamp
            /\ n <= Len(pcs)
            /\ \A k \in 1..n : cons[k].event_id = pcs[k].event_id
            /\ \A k \in 1..n : k < n => ~Truthy(cons[k].relationship)
            /\ (call.cause_id # NoId /\ call.pc # "done") =>
                   /\ n >= 1
                   /\ Truthy(cons[n].relationship)
                   /\ call.cause_id = cons[n].event_id
                   /\ call.relationship_text = cons[n].relationship
            /\ (call.cause_id = NoId
                /\ call.pc \notin {"idle", "find", "judge", "done"}) =>
                   /\ n = Len(pcs)
                   /\ \A k \in 1..n : ~Truthy(cons[k].relationship)

C4_Witness ==
    \E t \in Threads :
        /\ Len(th[t].potential_causes) = 2
        /\ Len(th[t].consulted) = 2
        /\ th[t].cause_id = th[t].potential_causes[2].event_id
        /\ SimLess(SimTo(th[t], th[t].potential_causes[2]),
                   SimTo(th[t], th[t].potential_causes[1]))

(* the oracle gave no verdict: no client, or the API call raised *)
OracleFailed(c) == c.reply \in {UNAVAILABLE, RAISE}

(* C5: a candidate for which the oracle is unavailable or raises counts as *)
(* "no relationship" and the loop goes on with the next candidate; a call  *)
(* in which no candidate was confirmed goes on to _insert_event, appends   *)
(* the event as a root event and returns True (it returns False there only *)
(* if a store statement raises).                                           *)
C5_OracleFailureIsNoRelationship ==
    /\ [](\A t \in Threads :
            LET call == th[t]
                cons == call.consulted
            IN  \A k \in 1..Len(cons) : OracleFailed(cons[k]) =>
                   /\ ~Truthy(cons[k].relationship)
                   /\ call.cause_id # cons[k].event_id
                   /\ k < Len(call.potential_causes) =>
                          \/ Len(cons) > k
                          \/ call.pc = "judge" /\ call.i = k + 1
                   /\ k = Len(call.potential_causes) =>
                          call.pc \in {"nextval", "fallback_select",
                                       "fallback_update", "insert"})
    /\ [][\A t \in Threads :
            (th[t].consulted # <<>> /\ th[t].cause_id = NoId
             /\ th'[t].pc = "done" /\ th'[t].failure # "store") =>
                /\ th'[t].result = TRUE
                /\ \E r \in th'[t].appended :
                      r \in events' \ events /\ RootRow(r)]_vars

C5_Witness ==
    \E t \in Threads :
        /\ th[t].pc = "insert" /\ th[t].cause_id = NoId
        /\ Len(th[t].consulted) = 2
        /\ th[t].consulted[1].reply = RAISE
        /\ th[t].consulted[2].reply = UNAVAILABLE \/ th[t].consulted[2].reply = RAISE
        /\ events # {}

(* C6: every stored event with a cause_id refers to a stored event whose   *)
(* timestamp is at most its own.                                           *)
C6_CauseNotLater ==
    \A e \in events :
        e.cause_id # NoId =>
            \E c \in events : c.event_id = e.cause_id /\ c.timestamp <= e.timestamp

C6_Witness ==
    \E e, c \in events :
        e.cause_id = c.event_id /\ c.timestamp < e.timestamp

(* C7: in every state, calls in flight or not, a stored event has a        *)
(* non-empty relationship_text exactly if its cause_id is set.             *)
C7_RelationshipIffCause ==
    \A e \in events : Truthy(e.relationship_text) <=> e.cause_id # NoId

C7_Witness ==
    /\ \E e \in events : e.cause_id # NoId /\ Truthy(e.relationship_text)
    /\ \E e \in events : e.cause_id = NoId
    /\ \E t \in Threads : th[t].pc = "insert" /\ th[t].cause_id # NoId

-----------------------------------------------------------------------------
(* Claims about get_causal_context, checked under SpecCtx *)

Distinct(chain) ==
    \A j, k \in 1..Len(chain) : j # k => chain[j].event_id # chain[k].event_id

StoredIds == {e.event_id : e \in events}

(* C8: on every store content (cycles, self references and dangling cause  *)
(* ids included) the ascend walk terminates with a finite chain in which   *)
(* every event appears at most once: the chain holds distinct stored       *)
(* events, so at most one per stored event, and every turn of the loop     *)
(* either leaves the loop or adds one event to it.                         *)
C8_AscendTerminates ==
    /\ [](/\ Distinct(ctx.ancestry)
          /\ IdsOf(ctx.ancestry) \subseteq StoredIds
          /\ Len(ctx.ancestry) <= Cardinality(events)
          /\ ctx.seen = IdsOf(ctx.ancestry))
    /\ [][(ctx.pc = "ascend" /\ ctx'.pc = "ascend") =>
             /\ Len(ctx'.ancestry) = Len(ctx.ancestry) + 1
             /\ ctx'.curr.event_id = ctx.curr.cause_id]_vars

(* the store holds the cycle 1 -> 2 -> 1 and the walk has gone round it *)
C8_Witness ==
    /\ \E a, b \in events :
          a # b /\ a.cause_id = b.event_id /\ b.cause_id = a.event_id
                /\ ctx.target.event_id = a.event_id
                /\ ctx.curr.event_id = b.event_id
    /\ ctx.pc = "descend"
    /\ Len(ctx.path) = 2

(* C9: the descend phase appends at most 2 events after the matched event; *)
(* it stops when there is no child or the child is already in the ascend   *)
(* path or among the earlier descend steps; the rendered sequence, path +  *)
(* consequences, never holds the same event twice.                         *)
C9_DescendBounded ==
    LET chain == ctx.path \o ctx.consequences
        n == Len(ctx.consequences)
    IN  /\ n <= 2
        /\ n = ctx.hop
        /\ Distinct(chain)
        /\ \A k \in 1..n :
              LET parent == IF k = 1 THEN ctx.target ELSE ctx.consequences[k - 1]
              IN  ctx.consequences[k] \in DirectEffects(parent.event_id)
        /\ (ctx.kind = "narrative" /\ n < 2) =>
              \/ DirectEffects(ctx.frontier.event_id) = {}
              \/ \E c \in DirectEffects(ctx.frontier.event_id) :
                    c.event_id \in IdsOf(chain)
        /\ ctx.kind = "narrative" =>
              ctx.result = format_chain_as_narrative(chain)

(* the matched event heads a line of three effects: the narrative ends     *)
(* after the second, with the third stored and not yet told                *)
C9_Witness ==
    /\ ctx.kind = "narrative"
    /\ Len(ctx.consequences) = 2
    /\ \E c \in DirectEffects(ctx.frontier.event_id) :
          c.event_id \notin IdsOf(ctx.path \o ctx.consequences)

(* C10: get_causal_context never raises to its caller: whatever the store  *)
(* holds and whichever embedding or store call fails, the call ends by     *)
(* returning a string, a narrative or a sentinel.                          *)
C10_NeverRaises ==
    /\ ctx.pc \in {"idle", "find", "ascend", "descend", "done"}
    /\ ctx.pc = "done" =>
          /\ ctx.result # NULL
          /\ Len(ctx.result) > 0
          /\ ctx.kind \in {"narrative", "sentinel", "error"}

C10_Witness ==
    /\ ctx.pc = "done"
    /\ ctx.kind = "error"
    /\ ctx.result = "Error retrieving causal context: disk I/O error"

-----------------------------------------------------------------------------
(* Claims about the choice of the matched event, checked under SpecCtx *)

NoContext == "No relevant causal context found in memory."

RowSet(rows) == {rows[k] : k \in 1..Len(rows)}

(* _find_most_relevant_event has returned, and no statement of it raised *)
FindReturns == ctx.pc = "find" /\ ctx'.pc # "find" /\ ctx'.kind # "error"

(* what the step made of the pool P: the event of highest similarity to  *)
(* the query, no event of equal similarity being more recent, or the     *)
(* sentinel if P is empty or holds nothing at or above the threshold     *)
PicksBestOf(P) ==
    LET sim(e) == Similarity(ctx.q_emb, e.embedding)
    IN  \/ /\ ctx'.pc = "ascend"
           /\ \E t \in P :
                 /\ ctx'.target = CausalEvent(t)
                 /\ AtLeastThreshold(sim(t))
                 /\ \A e \in P :
                       /\ ~SimLess(sim(t), sim(e))
                       /\ SimEq(sim(t), sim(e)) => e.timestamp <= t.timestamp
        \/ /\ ctx'.pc = "done" /\ ctx'.kind = "sentinel"
           /\ ctx'.result = NoContext
           /\ \A e \in P : ~AtLeastThreshold(sim(e))

(* C11 as stated: the pool is every event of the given session, or the   *)
(* newest MaxResults events if no session is given.                      *)
C11_BestOfSession ==
    [][FindReturns =>
         IF Truthy(ctx.session_id)
         THEN PicksBestOf(Pool(ctx.session_id))
         ELSE \E rows \in NewestFirst(events, MaxResults) :
                 PicksBestOf(RowSet(rows))]_vars

(* C11, amended: the pool is the newest MaxResults events, of the given  *)
(* session if one is given and of all sessions otherwise; the matched    *)
(* event is the one of highest similarity in it, the more recent one on  *)
(* a tie, and the call returns the fixed sentinel if the pool is empty   *)
(* or its best similarity is below the threshold.                        *)
C11_BestOfNewest ==
    [][FindReturns =>
         \E rows \in NewestFirst(Pool(ctx.session_id), MaxResults) :
            PicksBestOf(RowSet(rows))]_vars

(* events 1 and 4 carry the text of the query; 4 is the more recent one  *)
(* and has just been matched                                             *)
C11_Witness ==
    /\ ctx.pc = "ascend" /\ ctx.ancestry = <<ctx.target>>
    /\ ctx.session_id = NULL
    /\ \E e \in events :
          /\ e.event_id # ctx.target.event_id
          /\ SimEq(Similarity(ctx.q_emb, e.embedding),
                   Similarity(ctx.q_emb, ctx.target.embedding))
          /\ e.timestamp < ctx.target.timestamp
          /\ \A d \in events : d.timestamp > e.timestamp
                                => d.event_id = ctx.target.event_id

-----------------------------------------------------------------------------
(* Claims about a failing query embedding, checked under SpecCtx *)

NotAvailableText == "Causal memory not available"

(* the call ended where the query is embedded: the core had no embedder   *)
(* (or no store), or embedder.encode raised                               *)
EmbeddingStepEnds == ctx.pc = "idle" /\ ctx'.pc = "done"

(* C12: whenever embedding the query fails, the embedder being absent or *)
(* the encode call raising, the result is the one fixed "unavailable"    *)
(* sentinel, whatever the failure and whatever the message of the error. *)
C12_FixedUnavailable ==
    [][EmbeddingStepEnds => ctx'.result = NotAvailableText]_vars

-----------------------------------------------------------------------------
(* Claims about recording and retelling a link, checked under SpecChain *)

(* b is stored with the root event a as its cause, and nothing stored is *)
(* an effect of b                                                        *)
LinkedPair(a, b) ==
    /\ a \in events /\ b \in events
    /\ a.cause_id = NoId
    /\ b.cause_id = a.event_id
    /\ \A e \in events : e.cause_id # b.event_id

(* C13: an add_event whose first ranked candidate A the oracle confirms  *)
(* with text r stores its event B with cause_id = A's id and            *)
(* relationship_text = r; and a query that matched B, A being a root    *)
(* and B having no stored effect, returns                               *)
(* "Initially, A. This led to B (r).".                                   *)
C13_LinkedThenRetold ==
    /\ [][\A t \in Threads :
            (/\ th[t].pc = "insert" /\ th'[t].pc = "done"
             /\ th'[t].result = TRUE
             /\ th[t].consulted # <<>>
             /\ Truthy(th[t].consulted[1].relationship)) =>
               \E b \in events' \ events :
                  /\ b.effect_text = th[t].effect_text
                  /\ b.cause_id = th[t].consulted[1].event_id
                  /\ b.relationship_text = th[t].consulted[1].relationship
                  /\ \E a \in events :
                        /\ a.event_id = b.cause_id
                        /\ a.effect_text # b.effect_text
                        /\ a.timestamp <= b.timestamp]_vars
    /\ [](ctx.kind = "narrative" =>
            \A a, b \in events :
               (LinkedPair(a, b) /\ ctx.target = CausalEvent(b)) =>
                  ctx.result = "Initially, " \o a.effect_text \o ". This led to "
                               \o b.effect_text \o " ("
                               \o b.relationship_text \o ").")

(* A was recorded, then B with the oracle's "it led to it"; the query for *)
(* B has been answered                                                    *)
C13_Witness ==
    /\ ctx.kind = "narrative"
    /\ ctx.result = "Initially, A. This led to B (it led to it)."
    /\ \E a, b \in events :
          /\ LinkedPair(a, b) /\ ctx.target = CausalEvent(b)
          /\ a.effect_text = "A" /\ b.effect_text = "B"
          /\ b.relationship_text = "it led to it"

-----------------------------------------------------------------------------
(* Claims about the narrative text, checked under SpecFormat *)

Parenthesis(event) ==
    IF event.relationship_text = NULL \/ event.relationship_text = ""
    THEN ""
    ELSE " (" \o event.relationship_text \o ")"

(* the narrative of the first n events of the chain, before its closing  *)
(* period: the narrative of the first n - 1 and one more clause          *)
RECURSIVE Unclosed(_, _)
Unclosed(chain, n) ==
    IF n = 1 THEN "Initially, " \o chain[1].effect_text
    ELSE IF n = 2
    THEN Unclosed(chain, 1) \o ". This led to " \o chain[2].effect_text
         \o Parenthesis(chain[2])
    ELSE Unclosed(chain, n - 1) \o ", which in turn caused "
         \o chain[n].effect_text \o Parenthesis(chain[n])

(* C14: a chain of one event is rendered "Initially, {text}."; a longer  *)
(* one as "Initially, {first}." and one clause per further event, "This  *)
(* led to {text}" for the second and "which in turn caused {text}" for   *)
(* the later ones, each followed by " ({relationship})" only if the      *)
(* event has relationship text, joined by ", " and closed by one period. *)
C14_NarrativeText ==
    (ctx.pc = "done" /\ ctx.path # <<>>) =>
        /\ ctx.result = Unclosed(ctx.path, Len(ctx.path)) \o "."
        /\ Len(ctx.path) = 1 =>
              ctx.result = "Initially, " \o ctx.path[1].effect_text \o "."

C14_Witness ==
    /\ ctx.pc = "done"
    /\ Len(ctx.path) = 3
    /\ ctx.path[2].relationship_text = ""
    /\ ctx.path[3].relationship_text = "it led to it"
    /\ ctx.result =
         "Initially, A. This led to B, which in turn caused C (it led to it)."

-----------------------------------------------------------------------------
(* C15: get(key) returns the stored value only if the key is present and   *)
(* less than ttl seconds have passed since its last set; otherwise it      *)
(* returns none and a stale entry is gone from the cache; a get issued ttl *)
(* or more seconds after the last set returns none, whatever gets hit the  *)
(* key before.                                                             *)

GetDone(call) == call.pc = "done" /\ call.op = "get"

C15_FreshOrNone ==
    LET call == cth[Writer]
        set == call.expect
    IN  GetDone(call) =>
          /\ call.result # NULL =>
                /\ call.present
                /\ set.id # 0
                /\ call.checked_at - set.at < ttl
                /\ call.result = set.value
          /\ call.result = NULL =>
                /\ ~call.present \/ (set.id # 0 /\ call.checked_at - set.at >= ttl)
                /\ call.key \notin KeysOf(cache)
          /\ (set.id # 0 /\ call.started_at - set.at >= ttl) => call.result = NULL

(* a stale entry that a get had hit after its set is refused and removed *)
C15_Witness ==
    LET call == cth[Writer]
    IN  /\ GetDone(call)
        /\ call.present
        /\ call.result = NULL
        /\ call.expect.id # 0
        /\ call.started_at - call.expect.at >= ttl
        /\ call.key \in DOMAIN hist.lastUse
        /\ hist.lastUse[call.key] > call.expect.id

-----------------------------------------------------------------------------
(* C16: a set of a key that is not present, on a cache that holds maxsize  *)
(* entries, removes exactly one entry, the least recently used one (by set *)
(* or by a get hit), and leaves every other entry as it is; a set of a key *)
(* that is present, or on a cache that is not full, removes no entry.      *)

SetStores == cth[Writer].pc = "store" /\ cth'[Writer].pc = "stamp"

(* the key whose last set or get hit is the oldest *)
LeastRecentlyUsed ==
    CHOOSE k \in KeysOf(cache) :
        \A j \in KeysOf(cache) : hist.lastUse[k] <= hist.lastUse[j]

C16_EvictsLeastRecentlyUsed ==
    [][SetStores =>
         LET k == cth[Writer].key
             removed == IF k \notin KeysOf(cache) /\ Cardinality(KeysOf(cache)) = maxsize
                        THEN {LeastRecentlyUsed}
                        ELSE {}
         IN  /\ KeysOf(cache') = (KeysOf(cache) \ removed) \cup {k}
             /\ Len(cache') = Cardinality(KeysOf(cache'))
             /\ ValueOf(cache', k) = cth[Writer].value
             /\ \A j \in KeysOf(cache') \ {k} : ValueOf(cache', j) = ValueOf(cache, j)
    ]_vars

(* a full cache has taken a new key: the key set first was read since and  *)
(* stays, the key set after it is gone                                     *)
C16_Witness ==
    LET call == cth[Writer]
    IN  /\ call.op = "set" /\ call.pc = "stamp" /\ ~call.present
        /\ Cardinality(KeysOf(cache)) = maxsize
        /\ \E gone \in DOMAIN timestamps \ KeysOf(cache) :
           \E kept \in KeysOf(cache) \ {call.key} :
              /\ kept \in DOMAIN timestamps
              /\ timestamps[kept] < timestamps[gone]
              /\ hist.lastUse[kept] > hist.latest[kept].id

-----------------------------------------------------------------------------
(* C17: a get that hits key k makes k the most recently used entry, so it  *)
(* is not the next one to be evicted, and leaves the entries, their values *)
(* and every insertion timestamp as they are: k still expires ttl seconds  *)
(* after its last set.                                                     *)

GetHits == cth[Writer].pc = "read" /\ cth'[Writer].pc = "done"

C17_HitRefreshesRecencyOnly ==
    /\ [][GetHits =>
            LET k == cth[Writer].key
            IN  /\ cache'[Len(cache')].key = k
                /\ Len(cache') > 1 => cache'[1].key # k
                /\ Without(cache', k) = Without(cache, k)
                /\ ValueOf(cache', k) = ValueOf(cache, k)
                /\ timestamps' = timestamps
       ]_vars
    /\ [](LET call == cth[Writer]
          IN  GetDone(call) /\ call.result # NULL =>
                timestamps[call.key] = call.expect.at)

(* the entry set first was read later than the other entry was set, after  *)
(* time had passed: it is the last in the order of use                     *)
C17_Witness ==
    LET call == cth[Writer]
    IN  /\ GetDone(call) /\ call.result # NULL
        /\ Len(cache) = maxsize
        /\ cache[Len(cache)].key = call.key
        /\ \E other \in KeysOf(cache) \ {call.key} :
              /\ other \in DOMAIN hist.latest
              /\ call.expect.id < hist.latest[other].id
        /\ now > timestamps[call.key]

-----------------------------------------------------------------------------
(* C18: after any sequence of get, set and clear the cache holds at most   *)
(* maxsize entries, one per key, and after clear it holds no entry.        *)

ClearDone(call) == call.pc = "done" /\ call.op = "clear"

C18_BoundedAndCleared ==
    /\ Len(cache) <= maxsize
    /\ Cardinality(KeysOf(cache)) = Len(cache)
    /\ ClearDone(cth[Writer]) => cache = <<>> /\ DOMAIN timestamps = {}

(* more keys than the cache can hold were set, then clear was called *)
C18_Witness ==
    /\ ClearDone(cth[Writer])
    /\ Cardinality({k \in CacheKeys : hist.stored[k] # {}}) > maxsize

-----------------------------------------------------------------------------
(* C19: with get and set running concurrently in several request handlers, *)
(* every get completes without raising and returns none or a value that a  *)
(* set stored under its key, and the cache keeps one entry per key and at  *)
(* most maxsize entries.                                                   *)

C19_GetCompletes ==
    /\ \A t \in Threads :
          /\ cth[t].pc # "raised"
          /\ GetDone(cth[t]) /\ cth[t].result # NULL =>
                cth[t].result \in hist.stored[cth[t].key]
    /\ Cardinality(KeysOf(cache)) = Len(cache)
    /\ Len(cache) <= maxsize

-----------------------------------------------------------------------------
(* C20: last writer to set wins: once a set(k, v) has completed, a get(k)  *)
(* that starts afterwards and ends within ttl seconds of it returns v,     *)
(* unless a later set of k, a clear or the eviction of k intervened,       *)
(* whatever calls on k ran concurrently with that set.                     *)

(* the set that had completed when the call started is still the last one  *)
(* stored under the key, and neither evicted nor cleared                   *)
StillInForce(call) ==
    /\ call.expect.id # 0
    /\ call.key \in DOMAIN hist.latest
    /\ hist.latest[call.key] = call.expect

C20_LastWriterWins ==
    \A t \in Threads :
        LET call == cth[t]
        IN  (GetDone(call) /\ StillInForce(call) /\ now - call.expect.at < ttl) =>
                call.result = call.expect.value

-----------------------------------------------------------------------------
(* C29: between the calls of get, set and clear the keys that have an      *)
(* insertion timestamp are exactly the keys held in the LRU cache, so the  *)
(* table of timestamps holds at most maxsize keys.                         *)

BetweenCalls == cth[Writer].pc \in {"idle", "done"}

C29_TimestampsMatchEntries ==
    BetweenCalls =>
        /\ DOMAIN timestamps = KeysOf(cache)
        /\ Cardinality(DOMAIN timestamps) <= maxsize

-----------------------------------------------------------------------------
(* C26: every event that add_event records as a cause was, when the        *)
(* candidates were fetched, among the CandidateLimit newest stored events  *)
(* of the time window, had another text than the new event, had an         *)
(* embedding of the same dimension and non-zero norm with a similarity at  *)
(* or above the threshold, and ranked within the top max_potential_causes; *)
(* the oracle is consulted at most max_potential_causes times per call.    *)

FetchStep(t) == th[t].pc = "find" /\ th'[t].pc \in {"judge", "nextval"}

InWindow(r) == r.timestamp > clock - time_decay_hours

(* a result the SELECT may give: the newest rows of the window, as many as *)
(* the limit allows                                                        *)
MayBeFetched(F) ==
    LET window == {r \in events : InWindow(r)}
    IN  /\ F \subseteq window
        /\ Cardinality(F) = Min(CandidateLimit, Cardinality(window))
        /\ \A r \in F, d \in window \ F : d.timestamp <= r.timestamp

Eligible(r, call) ==
    /\ r.effect_text # call.effect_text
    /\ Len(r.embedding) = Len(call.effect_embedding)
    /\ Norm2(r.embedding) # 0
    /\ AtLeastThreshold(Similarity(call.effect_embedding, r.embedding))

RankKey(r, call) ==
    [similarity |-> Similarity(call.effect_embedding, r.embedding), event |-> r]

-----------------------------------------------------------------------------
(* C27: the event log is append-only: a step of add_event leaves every     *)
(* stored event as it is, in all its fields, removes none and adds at most *)
(* one event under an id that no stored event has; a step of               *)
(* get_causal_context leaves the store as it is.                           *)

C27_AppendOnly ==
    [][/\ events \subseteq events'
       /\ Cardinality(events' \ events) <= 1
       /\ \A new \in events' \ events, old \in events :
             old.event_id # new.event_id
       /\ ctx' # ctx => events' = events]_vars

(* an event was added to a store that held its text already, and a         *)
(* narrative has been served from the store                                *)
C27_Witness ==
    /\ th[Writer].pc = "done" /\ th[Writer].appended # {}
    /\ \E new \in th[Writer].appended, old \in events :
          old.event_id # new.event_id /\ old.effect_text = new.effect_text
    /\ ctx.pc = "done" /\ ctx.kind = "narrative"

-----------------------------------------------------------------------------
(* C28: in a store populated only through add_event, also by concurrent    *)
(* calls, every event with a cause_id has a cause_id smaller than its own  *)
(* event_id that refers to a stored event; so the cause graph has no cycle *)
(* and the walk from any event along cause_id ends at a root event.        *)

(* the event the walk from e reaches after at most n steps *)
RECURSIVE WalkEnd(_, _)
WalkEnd(e, n) ==
    IF n = 0 \/ e.cause_id = NoId THEN e
    ELSE WalkEnd(CHOOSE c \in events : c.event_id = e.cause_id, n - 1)

C28_CauseIsEarlierId ==
    /\ \A e \in events :
          e.cause_id # NoId =>
             /\ e.cause_id < e.event_id
             /\ \E c \in events : c.event_id = e.cause_id
    /\ \A e \in events : WalkEnd(e, Cardinality(events)).cause_id = NoId

(* a linked event is stored while the other thread, which drew a smaller  *)
(* id before it, is about to insert a linked event of its own             *)
C28_Witness ==
    \E e \in events, t \in Threads :
        /\ e.cause_id # NoId
        /\ th[t].pc = "insert" /\ th[t].cause_id # NoId
        /\ th[t].next_id < e.event_id

-----------------------------------------------------------------------------
(* C30: when get_causal_context is called with a session_id, every event   *)
(* of the returned narrative (the matched event, its ancestors and its     *)
(* descendants) is tagged with that session.  The store is taken as        *)
(* add_event leaves it: every cause_id refers to a stored event of a       *)
(* smaller id, not later, of another text and similar enough to have been  *)
(* a candidate.                                                            *)

AsAddEventLeavesIt ==
    \A e \in events :
        e.cause_id # NoId =>
            \E c \in events :
                /\ c.event_id = e.cause_id
                /\ c.event_id < e.event_id
                /\ c.timestamp <= e.timestamp
                /\ c.effect_text # e.effect_text
                /\ AtLeastThreshold(Similarity(e.embedding, c.embedding))

C30_NarrativeWithinSession ==
    (ctx.kind = "narrative" /\ ctx.session_id # NULL /\ AsAddEventLeavesIt) =>
        \A r \in events :
            r.event_id \in IdsOf(ctx.path \o ctx.consequences) =>
                r.session_id = ctx.session_id

-----------------------------------------------------------------------------
(* Claims about ContextAnalyzer, checked under SpecAnalyzer *)

Scoring == ca.pc = "done" /\ ca.op = "score"

TheEntry == ca.historical_conversations[1]

(* the stop-word-filtered token sets of the two texts *)
W1 == Range(Words(ca.current_directive)) \ stop_words
W2 == Range(Words(TheEntry.directive)) \ stop_words

AgeHours ==
    IF TheEntry.created_at = NoTime THEN 0 ELSE ca.utcnow - TheEntry.created_at

(* C21: calculate_relevance_score equals Jaccard(W1, W2) x decay, where    *)
(* Jaccard is |W1 n W2| / |W1 u W2|, 0 when both sets are empty, and decay *)
(* is max(0, 1 - age_hours / max_age_hours); identical text of age 0       *)
(* scores 1.                                                               *)
C21_JaccardTimesDecay ==
    Scoring =>
        LET left == max_context_age_hours - AgeHours
            decay == <<IF left > 0 THEN left ELSE 0, max_context_age_hours>>
        IN  /\ W1 \cup W2 = {} => SimEq(ca.result, Zero)
            /\ W1 \cup W2 # {} =>
                  SimEq(ca.result,
                        <<Cardinality(W1 \cap W2) * decay[1],
                          Cardinality(W1 \cup W2) * decay[2]>>)
            /\ (W1 = W2 /\ W1 # {} /\ AgeHours = 0) => SimEq(ca.result, <<1, 1>>)

(* two of three words shared, six hours old: 2/3 x 3/4 *)
C21_Witness ==
    /\ Scoring
    /\ Cardinality(W1 \cap W2) = 2 /\ Cardinality(W1 \cup W2) = 3
    /\ Cardinality(W1) = 2
    /\ AgeHours = 6
    /\ SimEq(ca.result, <<1, 2>>)

(* C22: calculate_relevance_score returns a value in [0, 1] for every      *)
(* directive and every entry, whatever the entry's created_at is relative  *)
(* to the current time.                                                    *)
C22_ScoreInUnitInterval ==
    Scoring => ~SimLess(ca.result, Zero) /\ ~SimLess(<<1, 1>>, ca.result)

(* the score the same call gives when the entry was created at c *)
ScoreAt(c) ==
    calculate_relevance_score(ca.current_directive,
                              [TheEntry EXCEPT !.created_at = c], ca.utcnow)

(* C23: with both texts fixed and a non-zero overlap, the score strictly   *)
(* decreases as the age grows from 0 toward max_age_hours and is 0 at and  *)
(* beyond max_age_hours; an older entry never scores higher than a more    *)
(* recent one of the same text.                                            *)
C23_DecreasesWithAge ==
    (Scoring /\ W1 \cap W2 # {} /\ TheEntry.created_at # NoTime) =>
        /\ AgeHours >= max_context_age_hours => SimEq(ca.result, Zero)
        /\ \A c \in CreatedAts \ {NoTime} :
              c < TheEntry.created_at =>
                 /\ ~SimLess(ca.result, ScoreAt(c))
                 /\ (AgeHours >= 0 /\ AgeHours < max_context_age_hours) =>
                        SimLess(ScoreAt(c), ca.result)

(* six hours old: below the score of the entry of now, above the score of  *)
(* the entry of twelve hours ago, which is above 0                         *)
C23_Witness ==
    /\ Scoring /\ W1 \cap W2 # {} /\ AgeHours = 6
    /\ SimLess(ca.result, ScoreAt(ca.utcnow))
    /\ SimLess(ScoreAt(ca.utcnow - 12), ca.result)
    /\ SimLess(Zero, ScoreAt(ca.utcnow - 12))

Filtering == ca.pc = "done" /\ ca.op = "filter"

(* the positions of the given list whose entry scores at or above the      *)
(* threshold                                                               *)
AtOrAbove ==
    {k \in 1..Len(ca.result.given) :
        ~SimLess(calculate_relevance_score(ca.current_directive,
                                           ca.result.given[k], ca.utcnow),
                 <<RelevanceNum, RelevanceDen>>)}

WithScore(entry) ==
    [entry EXCEPT !.relevance_score =
        calculate_relevance_score(ca.current_directive, entry, ca.utcnow)]

(* C24: filter_relevant_context returns exactly the input entries whose    *)
(* score is at or above the threshold, each with its score attached, in    *)
(* the order of non-increasing score; it returns no entry below the        *)
(* threshold and leaves the rejected entries as they were.                 *)
C24_FilterKeepsAndSorts ==
    Filtering =>
        LET given == ca.result.given
            returned == ca.result.returned
        IN  /\ Len(returned) = Cardinality(AtOrAbove)
            /\ \A k \in AtOrAbove :
                  Cardinality({j \in 1..Len(returned) : returned[j] = WithScore(given[k])})
                    = Cardinality({j \in AtOrAbove : given[j] = given[k]})
            /\ \A j \in 1..Len(returned) :
                  ~SimLess(returned[j].relevance_score, <<RelevanceNum, RelevanceDen>>)
            /\ \A i, j \in 1..Len(returned) :
                  i < j => ~SimLess(returned[i].relevance_score,
                                    returned[j].relevance_score)
            /\ \A k \in 1..Len(given) :
                  ca.historical_conversations[k] =
                     IF k \in AtOrAbove THEN WithScore(given[k]) ELSE given[k]

(* the list held a rejected entry with the score of an earlier filtering,  *)
(* then a kept entry, then a kept entry of a higher score                  *)
C24_Witness ==
    /\ Filtering
    /\ Len(ca.result.given) = 3 /\ AtOrAbove = {2, 3}
    /\ ca.result.given[1].relevance_score # NoScore
    /\ ca.result.returned[1] = WithScore(ca.result.given[3])
    /\ SimLess(ca.result.returned[2].relevance_score,
               ca.result.returned[1].relevance_score)

Extracting == ca.pc = "done" /\ ca.op = "topics"

(* how often the token occurs in the text *)
Frequency(w) ==
    LET tokens == Words(ca.conversation_text)
    IN  Cardinality({k \in 1..Len(tokens) : tokens[k] = w})

(* C25: extract_key_topics returns at most 10 distinct lowercase tokens of *)
(* the text, none a stop word or shorter than 3 letters, the most frequent *)
(* ones in the order of non-increasing frequency, and the empty list for   *)
(* the empty text; "The the the and and cat cat dog" gives cat, dog.       *)
C25_TopTopics ==
    Extracting =>
        LET r == ca.result
        IN  /\ Len(r) <= 10
            /\ \A i, j \in 1..Len(r) : i # j => r[i] # r[j]
            /\ \A i \in 1..Len(r) :
                  /\ Lower(r[i]) = r[i]
                  /\ r[i] \notin stop_words
                  /\ Len(r[i]) >= 3
                  /\ Frequency(r[i]) >= 1
            /\ \A i, j \in 1..Len(r) : i < j => Frequency(r[i]) >= Frequency(r[j])
            /\ \A w \in Range(Words(ca.conversation_text)) \ (stop_words \cup Range(r)) :
                  Len(r) = 10 /\ Frequency(w) <= Frequency(r[10])
            /\ ca.conversation_text = "" => r = <<>>
            /\ ca.conversation_text = "The the the and and cat cat dog" =>
                  r = <<"cat", "dog">>

C25_Witness ==
    /\ Extracting
    /\ ca.conversation_text = "The the the and and cat cat dog"
    /\ ca.result = <<"cat", "dog">>
====
